---- MODULE Spec2Model ----
(***************************************************************************)
(* Model of the tool-call orchestration loop of the customer-support chat  *)
(* backend: llm_handler.py (LLMHandler), mcp_client.py (MCPClient) and the *)
(* /chat and /clear handlers of main.py.                                   *)
(*                                                                         *)
(* Texts are sequences of lexemes.  A lexeme is one character of           *)
(* structure ({ } [ ] : , " space newline) or one word (a run of letters   *)
(* or digits); str.find, str.rfind, str.replace, str.strip and json.loads  *)
(* are modelled lexeme by lexeme.                                          *)
(***************************************************************************)
EXTENDS Naturals, Integers, Sequences, FiniteSets, TLC

(***************************************************************************)
(* Lexemes                                                                 *)
(***************************************************************************)
LB == "{"
RB == "}"
LSQ == "["
RSQ == "]"
COLON == ":"
COMMA == ","
Q == "\""
SP == " "
NL == "\n"

Whitespace == {SP, NL}
JsonLiterals == {"true", "false", "null"}
PyLiterals == {"True", "False", "None"}
Numbers == {"1"}

(***************************************************************************)
(* Python string primitives                                                *)
(***************************************************************************)
\* s[a:b] for 0 <= a, 0 <= b (Python slice, 0-based, b exclusive)
Slice(s, a, b) == SubSeq(s, a + 1, IF b > Len(s) THEN Len(s) ELSE b)

\* str.find(c): 0-based index of the first occurrence, -1 when absent
Find(s, c) ==
    IF \E i \in 1..Len(s) : s[i] = c
    THEN (CHOOSE i \in 1..Len(s) : s[i] = c /\ \A j \in 1..(i - 1) : s[j] # c) - 1
    ELSE -1

\* str.rfind(c): 0-based index of the last occurrence, -1 when absent
RFind(s, c) ==
    IF \E i \in 1..Len(s) : s[i] = c
    THEN (CHOOSE i \in 1..Len(s) : s[i] = c /\ \A j \in (i + 1)..Len(s) : s[j] # c) - 1
    ELSE -1

RECURSIVE LStrip(_)
LStrip(s) == IF s # << >> /\ Head(s) \in Whitespace THEN LStrip(Tail(s)) ELSE s

RECURSIVE RStrip(_)
RStrip(s) ==
    IF s # << >> /\ s[Len(s)] \in Whitespace THEN RStrip(SubSeq(s, 1, Len(s) - 1)) ELSE s

\* str.strip()
Strip(s) == RStrip(LStrip(s))

StartsWith(s, pat) == Len(pat) <= Len(s) /\ SubSeq(s, 1, Len(pat)) = pat

\* str.replace(pat, rep): every non-overlapping occurrence, left to right
RECURSIVE Replace(_, _, _)
Replace(s, pat, rep) ==
    IF s = << >> THEN << >>
    ELSE IF StartsWith(s, pat)
         THEN rep \o Replace(SubSeq(s, Len(pat) + 1, Len(s)), pat, rep)
         ELSE <<Head(s)>> \o Replace(Tail(s), pat, rep)

(***************************************************************************)
(* json.loads on a lexeme sequence.  A parsed value is kept in canonical   *)
(* form: its lexemes without insignificant whitespace.  For an object the  *)
(* members are also kept, as a sequence of [k, v] in document order.       *)
(***************************************************************************)
ParseFail == [ok |-> FALSE, next |-> 0, val |-> << >>, members |-> << >>]

RECURSIVE SkipWs(_, _)
SkipWs(s, i) == IF i <= Len(s) /\ s[i] \in Whitespace THEN SkipWs(s, i + 1) ELSE i

\* index of the closing quote of the string opened at i, 0 when unterminated
\* or when a raw control character (newline) occurs inside (strict mode)
RECURSIVE StringEnd(_, _)
StringEnd(s, j) ==
    IF j > Len(s) THEN 0
    ELSE IF s[j] = Q THEN j
    ELSE IF s[j] = NL THEN 0
    ELSE StringEnd(s, j + 1)

ScanString(s, i) ==
    LET e == StringEnd(s, i + 1)
    IN  IF e = 0 THEN ParseFail
        ELSE [ok |-> TRUE, next |-> e + 1, val |-> SubSeq(s, i, e), members |-> << >>]

RECURSIVE CanonMembers(_)
CanonMembers(ms) ==
    IF ms = << >> THEN << >>
    ELSE ms[1].k \o <<COLON>> \o ms[1].v
         \o (IF Len(ms) > 1 THEN <<COMMA>> ELSE << >>) \o CanonMembers(Tail(ms))

RECURSIVE ParseValue(_, _)
RECURSIVE ParseMembers(_, _, _)
RECURSIVE ParseElems(_, _, _)

\* members of an object; k is the index of the next key, whitespace skipped
ParseMembers(s, k, acc) ==
    IF k > Len(s) \/ s[k] # Q THEN ParseFail
    ELSE LET key == ScanString(s, k)
         IN  IF ~key.ok THEN ParseFail
             ELSE LET c == SkipWs(s, key.next)
                  IN  IF c > Len(s) \/ s[c] # COLON THEN ParseFail
                      ELSE LET v == ParseValue(s, c + 1)
                           IN  IF ~v.ok THEN ParseFail
                               ELSE LET d == SkipWs(s, v.next)
                                        ms == Append(acc, [k |-> key.val, v |-> v.val])
                                    IN  IF d > Len(s) THEN ParseFail
                                        ELSE IF s[d] = COMMA
                                             THEN ParseMembers(s, SkipWs(s, d + 1), ms)
                                        ELSE IF s[d] = RB
                                             THEN [ok |-> TRUE, next |-> d + 1,
                                                   val |-> <<LB>> \o CanonMembers(ms) \o <<RB>>,
                                                   members |-> ms]
                                        ELSE ParseFail

\* elements of an array; k is the index where the next element starts
ParseElems(s, k, acc) ==
    LET v == ParseValue(s, k)
    IN  IF ~v.ok THEN ParseFail
        ELSE LET d == SkipWs(s, v.next)
             IN  IF d > Len(s) THEN ParseFail
                 ELSE IF s[d] = COMMA
                      THEN ParseElems(s, d + 1, acc \o v.val \o <<COMMA>>)
                 ELSE IF s[d] = RSQ
                      THEN [ok |-> TRUE, next |-> d + 1,
                            val |-> <<LSQ>> \o acc \o v.val \o <<RSQ>>, members |-> << >>]
                 ELSE ParseFail

ParseValue(s, i) ==
    LET j == SkipWs(s, i)
    IN  IF j > Len(s) THEN ParseFail
        ELSE IF s[j] = Q THEN ScanString(s, j)
        ELSE IF s[j] \in JsonLiterals \cup Numbers
             THEN [ok |-> TRUE, next |-> j + 1, val |-> <<s[j]>>, members |-> << >>]
        ELSE IF s[j] = LB
             THEN LET k == SkipWs(s, j + 1)
                  IN  IF k <= Len(s) /\ s[k] = RB
                      THEN [ok |-> TRUE, next |-> k + 1, val |-> <<LB, RB>>, members |-> << >>]
                      ELSE ParseMembers(s, k, << >>)
        ELSE IF s[j] = LSQ
             THEN LET k == SkipWs(s, j + 1)
                  IN  IF k <= Len(s) /\ s[k] = RSQ
                      THEN [ok |-> TRUE, next |-> k + 1, val |-> <<LSQ, RSQ>>, members |-> << >>]
                      ELSE ParseElems(s, k, << >>)
        ELSE ParseFail

\* json.loads(s): ok = FALSE stands for json.JSONDecodeError
JsonLoads(s) ==
    LET r == ParseValue(s, 1)
    IN  IF r.ok /\ SkipWs(s, r.next) > Len(s) THEN r ELSE ParseFail

\* key in data, data[key] for a parsed object (a dict keeps the last duplicate)
Key(word) == <<Q, word, Q>>
HasKey(data, word) == \E i \in 1..Len(data.members) : data.members[i].k = Key(word)
GetKey(data, word) ==
    LET i == CHOOSE i \in 1..Len(data.members) :
                 /\ data.members[i].k = Key(word)
                 /\ \A j \in (i + 1)..Len(data.members) : data.members[j].k # Key(word)
    IN  data.members[i].v

\* json.dumps(v) of a parsed value: ", " and ": " separators outside strings
RECURSIVE JsonDumpsFrom(_, _)
JsonDumpsFrom(v, inString) ==
    IF v = << >> THEN << >>
    ELSE IF Head(v) = Q THEN <<Q>> \o JsonDumpsFrom(Tail(v), ~inString)
    ELSE IF ~inString /\ Head(v) \in {COLON, COMMA}
         THEN <<Head(v), SP>> \o JsonDumpsFrom(Tail(v), inString)
    ELSE <<Head(v)>> \o JsonDumpsFrom(Tail(v), inString)

JsonDumps(v) == JsonDumpsFrom(v, FALSE)

(***************************************************************************)
(* LLMHandler: tool-call detection and response sanitization               *)
(***************************************************************************)
NoIntent == [found |-> FALSE, tool_name |-> << >>, arguments |-> << >>]

\* the six str.replace calls of _try_parse_tool_call, in source order
FixPythonLiterals(json_str) ==
    LET r1 == Replace(json_str, <<COLON, SP, "True">>, <<COLON, SP, "true">>)
        r2 == Replace(r1, <<COLON, "True">>, <<COLON, "true">>)
        r3 == Replace(r2, <<COLON, SP, "False">>, <<COLON, SP, "false">>)
        r4 == Replace(r3, <<COLON, "False">>, <<COLON, "false">>)
        r5 == Replace(r4, <<COLON, SP, "None">>, <<COLON, SP, "null">>)
        r6 == Replace(r5, <<COLON, "None">>, <<COLON, "null">>)
    IN  r6

\* _try_parse_tool_call up to the call of the tool: the Tool Call Intent the
\* text holds, NoIntent when there is no candidate, json.loads raises
\* JSONDecodeError, or a field is missing
ParseToolCall(text) ==
    LET start == Find(text, LB)
        end == RFind(text, RB) + 1
    IN  IF start >= 0 /\ end > start
        THEN LET json_str == FixPythonLiterals(Slice(text, start, end))
                 data == JsonLoads(json_str)
             IN  IF data.ok /\ HasKey(data, "tool") /\ HasKey(data, "arguments")
                 THEN [found |-> TRUE, tool_name |-> GetKey(data, "tool"),
                       arguments |-> GetKey(data, "arguments")]
                 ELSE NoIntent
        ELSE NoIntent

Filler == <<"Let me look that up for you...">>

\* _clean_response without the test for the tool and arguments fields
CleanResponseAnyObject(text) ==
    LET start == Find(text, LB)
        end == RFind(text, RB) + 1
    IN  IF start >= 0 /\ end > start
        THEN LET json_str == Slice(text, start, end)
                 data == JsonLoads(json_str)
             IN  IF data.ok
                 THEN LET before == Strip(Slice(text, 0, start))
                          after == Strip(Slice(text, end, Len(text)))
                          joined == Strip(before \o <<SP>> \o after)
                      IN  IF joined # << >> THEN joined ELSE Filler
                 ELSE text
        ELSE text

\* _clean_response keeping the text from the payload's start as the rest
CleanResponseWrongSlice(text) ==
    LET start == Find(text, LB)
        end == RFind(text, RB) + 1
    IN  IF start >= 0 /\ end > start
        THEN LET json_str == Slice(text, start, end)
                 data == JsonLoads(json_str)
             IN  IF data.ok /\ HasKey(data, "tool") /\ HasKey(data, "arguments")
                 THEN LET before == Strip(Slice(text, 0, start))
                          after == Strip(Slice(text, start, Len(text)))
                          joined == Strip(before \o <<SP>> \o after)
                      IN  IF joined # << >> THEN joined ELSE Filler
                 ELSE text
        ELSE text

\* _clean_response without the final strip and the filler
CleanResponseNoFiller(text) ==
    LET start == Find(text, LB)
        end == RFind(text, RB) + 1
    IN  IF start >= 0 /\ end > start
        THEN LET json_str == Slice(text, start, end)
                 data == JsonLoads(json_str)
             IN  IF data.ok /\ HasKey(data, "tool") /\ HasKey(data, "arguments")
                 THEN Strip(Slice(text, 0, start)) \o <<SP>> \o Strip(Slice(text, end, Len(text)))
                 ELSE text
        ELSE text

\* _clean_response
CleanResponse(text) ==
    LET start == Find(text, LB)
        end == RFind(text, RB) + 1
    IN  IF start >= 0 /\ end > start
        THEN LET json_str == Slice(text, start, end)
                 data == JsonLoads(json_str)
             IN  IF data.ok /\ HasKey(data, "tool") /\ HasKey(data, "arguments")
                 THEN LET before == Strip(Slice(text, 0, start))
                          after == Strip(Slice(text, end, Len(text)))
                          joined == Strip(before \o <<SP>> \o after)
                      IN  IF joined # << >> THEN joined ELSE Filler
                 ELSE text
        ELSE text

(***************************************************************************)
(* MCPClient.call_tool.  A reply of the tool endpoint is a record:         *)
(*   kind    "transport" (the POST raises: connect error, timeout),        *)
(*           "not_json" (a body response.json() cannot decode), "json"     *)
(*   result  "absent" | "null" | "object"      the envelope's result key   *)
(*   content "absent" | "empty" | "list" | "dict"   result.content         *)
(*   item    "text" | "notext"       content[0] with or without a text key *)
(*   error   "absent" | "null" | "nomsg" | "msg"    the envelope's error   *)
(***************************************************************************)
ToolText == <<"product", SP, "list">>
RemoteMessage == <<"Unknown", SP, "tool">>
ErrorPrefix == <<"Error", COLON, SP>>

Reply(kind, result, content, item, error) ==
    [kind |-> kind, result |-> result, content |-> content, item |-> item, error |-> error]

\* str(result["result"]) and str(result): the printed form of the dict
StrOfResult(r) == <<"str", r.content, r.item>>
StrOfEnvelope(r) == <<"str", r.result, r.content, r.item, r.error>>

Returned(v) == [raises |-> "none", value |-> v]
Raised(e) == [raises |-> e, value |-> << >>]

\* call_tool raising on a remote-reported error instead of returning a string
CallToolRaisesOnError(r) ==
    IF r.kind = "transport" THEN Raised("TransportError")
    ELSE IF r.kind = "not_json" THEN Raised("JSONDecodeError")
    ELSE IF r.result = "null" THEN Raised("AttributeError")
    ELSE IF r.result = "object" /\ r.content = "dict" THEN Raised("KeyError")
    ELSE IF r.result = "object" /\ r.content = "list"
         THEN Returned(IF r.item = "text" THEN ToolText ELSE StrOfResult(r))
    ELSE IF r.error = "absent" THEN Returned(StrOfEnvelope(r))
    ELSE Raised("RemoteError")

\* call_tool: the value returned or the exception raised for a reply
CallTool(r) ==
    IF r.kind = "transport" THEN Raised("TransportError")
    ELSE IF r.kind = "not_json" THEN Raised("JSONDecodeError")
    ELSE IF r.result = "null" THEN Raised("AttributeError")
    ELSE IF r.result = "object" /\ r.content = "dict" THEN Raised("KeyError")
    ELSE IF r.result = "object" /\ r.content = "list"
         THEN Returned(IF r.item = "text" THEN ToolText ELSE StrOfResult(r))
    ELSE IF r.error = "absent" THEN Returned(StrOfEnvelope(r))
    ELSE IF r.error = "null" THEN Raised("AttributeError")
    ELSE Returned(ErrorPrefix \o (IF r.error = "msg" THEN RemoteMessage
                                  ELSE <<"Unknown", SP, "error">>))

\* except Exception in place of except (json.JSONDecodeError, KeyError)
CaughtEverything == {"JSONDecodeError", "KeyError", "AttributeError", "TransportError"}

\* except (json.JSONDecodeError, KeyError) of _try_parse_tool_call
CaughtByTryParse == {"JSONDecodeError", "KeyError"}

(***************************************************************************)
(* MCPClient.list_tools.  A reply to tools/list is a record:               *)
(*   kind   "transport" | "not_json" | "json"                              *)
(*   result "absent" | "null" | "number" | "list" | "string" | "object"    *)
(*   tools  "absent" | "present"       result.tools, for an object result  *)
(*   error  "absent" | "msg"           the envelope's error key            *)
(***************************************************************************)
RemoteTools == <<"search", "get_order">>

ListReply(kind, result, tools, error) ==
    [kind |-> kind, result |-> result, tools |-> tools, error |-> error]

\* list_tools: the descriptors returned or the exception raised for a reply
ListTools(r) ==
    IF r.kind = "transport" THEN Raised("TransportError")
    ELSE IF r.kind = "not_json" THEN Raised("JSONDecodeError")
    ELSE IF r.result = "absent" THEN Returned(<< >>)
    ELSE IF r.result \in {"null", "number"} THEN Raised("TypeError")
    ELSE IF r.result = "object" /\ r.tools = "present" THEN Returned(RemoteTools)
    ELSE Returned(<< >>)

ToolsListed == ListReply("json", "object", "present", "absent")

AllListReplies ==
    { ListReply("transport", "absent", "absent", "absent"),
      ListReply("not_json", "absent", "absent", "absent") }
    \cup { ListReply("json", res, "absent", e) :
             res \in {"absent", "null", "number", "list", "string", "object"},
             e \in {"absent", "msg"} }
    \cup { ListReply("json", "object", "present", e) : e \in {"absent", "msg"} }

(***************************************************************************)
(* LLMHandler.process_message: prompt construction                         *)
(***************************************************************************)
\* SYSTEM_PROMPT + _build_tools_description()
full_system == <<"SYSTEM_PROMPT", "tools_desc">>

Msg(role, content) == [role |-> role, content |-> content]

HistoryWindow == 10

\* the whole history instead of its last n entries
LastNAll(h, n) == h

\* h[-n:]
LastN(h, n) == IF Len(h) <= n THEN h ELSE SubSeq(h, Len(h) - n + 1, Len(h))

\* a prompt isolated from the other turns: only the turn's own message
BuildMessagesOwn(history) == <<Msg("system", full_system), history[Len(history)]>>

\* messages = [system] + conversation_history[-10:]
BuildMessages(history) == <<Msg("system", full_system)>> \o LastN(history, HistoryWindow)

\* str(v) of a parsed value inside an f-string: a string prints without quotes
PyStr(v) == IF Len(v) >= 2 /\ Head(v) = Q /\ v[Len(v)] = Q THEN SubSeq(v, 2, Len(v) - 1) ELSE v

\* the synthesized user turn of the second LLM call
ToolPrompt(tool_name, arguments, result) ==
    <<"The tool '">> \o PyStr(tool_name) \o <<"' was called with arguments ">>
    \o JsonDumps(arguments) \o <<" and returned:", NL, NL>> \o result
    \o <<NL, NL, "Please provide a helpful response ... Do not include any JSON in your response.">>

\* the second prompt built with the sanitized first response
ToolResponseMessagesCleaned(msgs, text, tr) ==
    msgs \o <<Msg("assistant", CleanResponse(text)),
              Msg("user", ToolPrompt(tr.tool_name, tr.arguments, tr.result))>>

\* tool_response_messages
ToolResponseMessages(msgs, text, tr) ==
    msgs \o <<Msg("assistant", text), Msg("user", ToolPrompt(tr.tool_name, tr.arguments, tr.result))>>

(***************************************************************************)
(* Inputs: what the LLM provider, the tool endpoint and the end user send. *)
(* A completion is the content of choices[0].message, kept in three parts: *)
(* prose before, an embedded object, prose after.                          *)
(***************************************************************************)
Str(w) == <<Q, w, Q>>
Completion(pre, obj, post) == [pre |-> pre, obj |-> obj, post |-> post]
Content(c) == c.pre \o c.obj \o c.post

\* the object {"tool": name, "arguments": args}
ToolCallObj(name, args) ==
    <<LB>> \o Str("tool") \o <<COLON, SP>> \o name \o <<COMMA, SP>>
    \o Str("arguments") \o <<COLON>> \o args \o <<RB>>

\* whitespace between a colon or comma and the value that follows
Gaps == {<< >>, <<SP>>, <<SP, SP>>, <<NL>>}

\* a string value whose text holds a colon and a Python literal
TrueInString == <<Q, "a", COLON, SP, "True", Q>>

Scalars ==
    {<<l>> : l \in PyLiterals \cup JsonLiterals \cup Numbers} \cup {Str("x"), TrueInString}

\* argument values: the scalar itself, in an object member, in an array
ArgForms(gap, v) ==
    { gap \o v,
      <<LB>> \o Str("q") \o <<COLON>> \o gap \o v \o <<RB>>,
      <<LB>> \o Str("q") \o <<COLON, SP, LSQ>> \o gap \o v \o <<COMMA, SP>> \o Str("x") \o <<RSQ, RB>>,
      <<LB>> \o Str("q") \o <<COLON, SP, LSQ>> \o Str("x") \o <<COMMA>> \o gap \o v \o <<RSQ, RB>> }

ToolCallObjs ==
    UNION { { ToolCallObj(Str("search"), a) : a \in ArgForms(g, v) } : g \in Gaps, v \in Scalars }

\* further objects: fields missing, odd values, trailing commas, duplicate keys,
\* and text in braces that is no object
MoreObjs ==
    { <<LB>> \o Str("tool") \o <<COLON, SP>> \o Str("search") \o <<RB>>,
      <<LB>> \o Str("arguments") \o <<COLON, SP, LB, RB, RB>>,
      <<LB>> \o Str("name") \o <<COLON>> \o Str("search") \o <<COMMA>>
          \o Str("arguments") \o <<COLON, LB, RB, RB>>,
      ToolCallObj(Str("search"), <<LB, RB>>),
      ToolCallObj(<<"null">>, <<LSQ, RSQ>>),
      ToolCallObj(Str("search"), <<LB, RB, COMMA>>),
      ToolCallObj(Str("search"), <<LB>> \o TrueInString \o <<COLON, "1", RB>>),
      <<LB>> \o Str("tool") \o <<COLON>> \o Str("a") \o <<COMMA>> \o ToolCallObj(Str("search"), <<LB, RB>>),
      <<LB, "w", RB>>,
      <<LB, RB>>,
      << >> }

Pres == { << >>, <<"Sure", SP>>, <<SP, "Sure", COLON, NL>>, <<"Use", SP, LB, "w", RB, SP>>, <<"w", RB, SP>> }
Posts == { << >>, <<SP, "ok">>, <<NL, "ok", SP, NL>>, <<SP, LB, "w", RB>>, <<SP, LB, "w">> }

AllCompletions ==
    { Completion(pre, obj, post) : pre \in Pres, obj \in ToolCallObjs \cup MoreObjs, post \in Posts }

Laptops == Completion(<<"We", SP, "have", SP, "laptops">>, << >>, << >>)
Hello == Completion(<<"Hello">>, << >>, << >>)
BareToolCall == Completion(<< >>, ToolCallObj(Str("search"), <<LB, RB>>), << >>)
PythonToolCall ==
    Completion(<< >>, ToolCallObj(Str("search"), <<LB>> \o Str("q") \o <<COLON, SP, "True", RB>>), << >>)
ProseToolCall == Completion(<<"Sure", SP>>, ToolCallObj(Str("search"), <<LB, RB>>), <<SP, "ok">>)
PaddedToolCall == Completion(<<SP>>, ToolCallObj(Str("search"), <<LB, RB>>), <<NL>>)

TextReply == Reply("json", "object", "list", "text", "absent")
ErrorReply == Reply("json", "absent", "absent", "text", "msg")
NotJsonReply == Reply("not_json", "absent", "absent", "text", "absent")
TransportFailure == Reply("transport", "absent", "absent", "text", "absent")

AllReplies ==
    { TransportFailure, NotJsonReply }
    \cup { Reply("json", "absent", "absent", "text", e) : e \in {"absent", "null", "nomsg", "msg"} }
    \cup { Reply("json", "null", "absent", "text", e) : e \in {"absent", "msg"} }
    \cup { Reply("json", "object", c, "text", e) :
             c \in {"absent", "empty", "dict"}, e \in {"absent", "null", "nomsg", "msg"} }
    \cup { Reply("json", "object", "list", i, e) : i \in {"text", "notext"}, e \in {"absent", "msg"} }

\* request.message, per client
UserMessages ==
    [t \in {1, 2} |-> IF t = 1 THEN { <<"Hello">>, << >> }
                     ELSE { <<"laptops", SP, "under", SP, "$1000", "?">>, <<SP, NL>> }]

(***************************************************************************)
(* State                                                                   *)
(***************************************************************************)
\* two /chat requests can be in flight at once
Slots == {1, 2}

VARIABLES
    conversation_history,   \* LLMHandler.conversation_history
    clear_pending,          \* clear_history() ran and no turn has started since
    pc,                     \* per request: where the /chat task is suspended
    user_message,           \* per request: request.message
    messages,               \* per request: the local list messages
    completion,             \* per request: content of the first completion
    response_text,          \* per request: the local response_text
    tool_reply,             \* per request: what the tool endpoint answered
    tool_result,            \* per request: (tool_name, arguments, result)
    tool_response_messages, \* per request: the messages of the second call
    followup,               \* per request: content of the second completion
    final_response,         \* per request: the text process_message returned
    calls,                  \* per request: the remote calls so far, in order
    http_status,            \* per request: status of the /chat response
    tools,                  \* MCPClient.tools
    startup,                \* lifespan: "starting", "ready" (serving) or "crashed"
    list_reply              \* what the tool endpoint answered to tools/list

turn_vars == <<user_message, messages, completion, response_text, tool_reply, tool_result,
               tool_response_messages, followup, final_response, calls, http_status>>
client_vars == <<tools, startup, list_reply>>
vars == <<conversation_history, clear_pending, pc, turn_vars, client_vars>>

NoCompletion == Completion(<< >>, << >>, << >>)
NoReply == Reply("none", "absent", "absent", "text", "absent")
NoToolResult == [tool_name |-> << >>, arguments |-> << >>, result |-> << >>]
NoListReply == ListReply("none", "absent", "absent", "absent")

Init ==
    /\ conversation_history = << >>
    /\ clear_pending = FALSE
    /\ pc = [t \in Slots |-> "idle"]
    /\ user_message = [t \in Slots |-> << >>]
    /\ messages = [t \in Slots |-> << >>]
    /\ completion = [t \in Slots |-> NoCompletion]
    /\ response_text = [t \in Slots |-> << >>]
    /\ tool_reply = [t \in Slots |-> NoReply]
    /\ tool_result = [t \in Slots |-> NoToolResult]
    /\ tool_response_messages = [t \in Slots |-> << >>]
    /\ followup = [t \in Slots |-> NoCompletion]
    /\ final_response = [t \in Slots |-> << >>]
    /\ calls = [t \in Slots |-> << >>]
    /\ http_status = [t \in Slots |-> 0]
    /\ tools = << >>
    /\ startup = "starting"
    /\ list_reply = NoListReply

(***************************************************************************)
(* Operations.  A /chat request runs chat() and process_message() as one   *)
(* asyncio task; it is suspended only in its awaits (the first LLM call,   *)
(* call_tool, the second LLM call), so each action runs the code from one  *)
(* await to the next.                                                      *)
(***************************************************************************)
Set(f, t, v) == [f EXCEPT ![t] = v]

\* a history capped at the window when the assistant message is stored
ReturnTextTruncating(t, text, log) ==
    /\ conversation_history' =
           LastN(Append(conversation_history, Msg("assistant", text)), HistoryWindow)
    /\ final_response' = Set(final_response, t, text)
    /\ http_status' = Set(http_status, t, 200)
    /\ calls' = Set(calls, t, log)
    /\ pc' = Set(pc, t, "done")

\* process_message returns text: append the assistant message, chat() answers 200
ReturnText(t, text, log) ==
    /\ conversation_history' = Append(conversation_history, Msg("assistant", text))
    /\ final_response' = Set(final_response, t, text)
    /\ http_status' = Set(http_status, t, 200)
    /\ calls' = Set(calls, t, log)
    /\ pc' = Set(pc, t, "done")

\* a failing turn that takes its own user message back out of the history
RaiseErrorRollsBack(t, log) ==
    /\ http_status' = Set(http_status, t, 500)
    /\ calls' = Set(calls, t, log)
    /\ pc' = Set(pc, t, "failed")
    /\ conversation_history' =
           IF conversation_history # << >>
              /\ conversation_history[Len(conversation_history)] = Msg("user", user_message[t])
           THEN SubSeq(conversation_history, 1, Len(conversation_history) - 1)
           ELSE conversation_history
    /\ UNCHANGED final_response

\* process_message raises: chat() answers 500
RaiseError(t, log) ==
    /\ http_status' = Set(http_status, t, 500)
    /\ calls' = Set(calls, t, log)
    /\ pc' = Set(pc, t, "failed")
    /\ UNCHANGED <<conversation_history, final_response>>

\* chat() rejecting only the empty message, not the blank one
ChatWithoutStripCheck(t, msgs, maxHistory) ==
    /\ startup = "ready"
    /\ pc[t] = "idle"
    /\ UNCHANGED client_vars
    /\ Len(conversation_history) < maxHistory
    /\ \E m \in msgs :
        /\ user_message' = Set(user_message, t, m)
        /\ IF m = << >>
           THEN /\ http_status' = Set(http_status, t, 400)
                /\ pc' = Set(pc, t, "rejected")
                /\ UNCHANGED <<conversation_history, clear_pending, messages, calls>>
           ELSE /\ conversation_history' = Append(conversation_history, Msg("user", m))
                /\ messages' = Set(messages, t, BuildMessages(conversation_history'))
                /\ calls' = Set(calls, t, <<"llm:start">>)
                /\ pc' = Set(pc, t, "llm1")
                /\ clear_pending' = FALSE
                /\ UNCHANGED http_status
    /\ UNCHANGED <<completion, response_text, tool_reply, tool_result,
                   tool_response_messages, followup, final_response>>

\* chat() taking the prompt window before the user message is appended
ChatWindowBeforeAppend(t, msgs, maxHistory) ==
    /\ startup = "ready"
    /\ pc[t] = "idle"
    /\ UNCHANGED client_vars
    /\ Len(conversation_history) < maxHistory
    /\ \E m \in msgs :
        /\ user_message' = Set(user_message, t, m)
        /\ IF Strip(m) = << >>
           THEN /\ http_status' = Set(http_status, t, 400)
                /\ pc' = Set(pc, t, "rejected")
                /\ UNCHANGED <<conversation_history, clear_pending, messages, calls>>
           ELSE /\ conversation_history' = Append(conversation_history, Msg("user", m))
                /\ messages' = Set(messages, t, BuildMessages(conversation_history))
                /\ calls' = Set(calls, t, <<"llm:start">>)
                /\ pc' = Set(pc, t, "llm1")
                /\ clear_pending' = FALSE
                /\ UNCHANGED http_status
    /\ UNCHANGED <<completion, response_text, tool_reply, tool_result,
                   tool_response_messages, followup, final_response>>

\* chat() up to the first await of process_message
Chat(t, msgs, maxHistory) ==
    /\ startup = "ready"
    /\ pc[t] = "idle"
    /\ UNCHANGED client_vars
    /\ Len(conversation_history) < maxHistory
    /\ \E m \in msgs :
        /\ user_message' = Set(user_message, t, m)
        /\ IF Strip(m) = << >>
           THEN /\ http_status' = Set(http_status, t, 400)
                /\ pc' = Set(pc, t, "rejected")
                /\ UNCHANGED <<conversation_history, clear_pending, messages, calls>>
           ELSE /\ conversation_history' = Append(conversation_history, Msg("user", m))
                /\ messages' = Set(messages, t, BuildMessages(conversation_history'))
                /\ calls' = Set(calls, t, <<"llm:start">>)
                /\ pc' = Set(pc, t, "llm1")
                /\ clear_pending' = FALSE
                /\ UNCHANGED http_status
    /\ UNCHANGED <<completion, response_text, tool_reply, tool_result,
                   tool_response_messages, followup, final_response>>

\* the first completion arrives: strip, _try_parse_tool_call up to its await,
\* or _clean_response, append and return when no tool call is found
FirstCompletion(t, completions) ==
    /\ pc[t] = "llm1"
    /\ UNCHANGED client_vars
    /\ \E c \in completions :
        LET text == Strip(Content(c))
            intent == ParseToolCall(text)
        IN  /\ completion' = Set(completion, t, c)
            /\ response_text' = Set(response_text, t, text)
            /\ IF intent.found
               THEN /\ tool_result' = Set(tool_result, t,
                          [tool_name |-> intent.tool_name, arguments |-> intent.arguments,
                           result |-> << >>])
                    /\ calls' = Set(calls, t, calls[t] \o <<"llm:return", "tool:start">>)
                    /\ pc' = Set(pc, t, "tool")
                    /\ UNCHANGED <<conversation_history, final_response, http_status>>
               ELSE /\ ReturnText(t, CleanResponse(text), Append(calls[t], "llm:return"))
                    /\ UNCHANGED tool_result
    /\ UNCHANGED <<clear_pending, user_message, messages, tool_reply,
                   tool_response_messages, followup>>

\* the first LLM call fails (transport error, timeout)
FirstCompletionFails(t) ==
    /\ pc[t] = "llm1"
    /\ UNCHANGED client_vars
    /\ RaiseError(t, Append(calls[t], "llm:raise"))
    /\ UNCHANGED <<clear_pending, user_message, messages, completion, response_text,
                   tool_reply, tool_result, tool_response_messages, followup>>

\* ToolAnswers with a retry of the tool call when call_tool raises
ToolAnswersRetry(t, replies) ==
    /\ pc[t] = "tool"
    /\ UNCHANGED client_vars
    /\ \E r \in replies :
        LET out == CallTool(r)
            tr == [tool_result[t] EXCEPT !.result = out.value]
        IN  /\ tool_reply' = Set(tool_reply, t, r)
            /\ IF out.raises = "none"
               THEN /\ tool_result' = Set(tool_result, t, tr)
                    /\ tool_response_messages' = Set(tool_response_messages, t,
                          ToolResponseMessages(messages[t], response_text[t], tr))
                    /\ calls' = Set(calls, t, calls[t] \o <<"tool:return", "llm:start">>)
                    /\ pc' = Set(pc, t, "llm2")
                    /\ UNCHANGED <<conversation_history, final_response, http_status>>
               ELSE IF Len(calls[t]) < 5
               THEN /\ calls' = Set(calls, t, calls[t] \o <<"tool:raise", "tool:start">>)
                    /\ UNCHANGED <<pc, conversation_history, final_response, http_status,
                                   tool_result, tool_response_messages>>
               ELSE /\ RaiseError(t, Append(calls[t], "tool:raise"))
                    /\ UNCHANGED <<tool_result, tool_response_messages>>
    /\ UNCHANGED <<clear_pending, user_message, messages, completion, response_text, followup>>

\* the tool endpoint answers: the rest of call_tool and _try_parse_tool_call,
\* then the second LLM call is issued, or the turn returns or raises
ToolAnswers(t, replies) ==
    /\ pc[t] = "tool"
    /\ UNCHANGED client_vars
    /\ \E r \in replies :
        LET out == CallTool(r)
            tr == [tool_result[t] EXCEPT !.result = out.value]
        IN  /\ tool_reply' = Set(tool_reply, t, r)
            /\ IF out.raises = "none"
               THEN /\ tool_result' = Set(tool_result, t, tr)
                    /\ tool_response_messages' = Set(tool_response_messages, t,
                          ToolResponseMessages(messages[t], response_text[t], tr))
                    /\ calls' = Set(calls, t, calls[t] \o <<"tool:return", "llm:start">>)
                    /\ pc' = Set(pc, t, "llm2")
                    /\ UNCHANGED <<conversation_history, final_response, http_status>>
               ELSE IF out.raises \in CaughtByTryParse
               THEN /\ ReturnText(t, CleanResponse(response_text[t]),
                                  Append(calls[t], "tool:raise"))
                    /\ UNCHANGED <<tool_result, tool_response_messages>>
               ELSE /\ RaiseError(t, Append(calls[t], "tool:raise"))
                    /\ UNCHANGED <<tool_result, tool_response_messages>>
    /\ UNCHANGED <<clear_pending, user_message, messages, completion, response_text, followup>>

\* the second completion arrives: strip, _clean_response, append and return
SecondCompletion(t, completions) ==
    /\ pc[t] = "llm2"
    /\ UNCHANGED client_vars
    /\ \E c \in completions :
        /\ followup' = Set(followup, t, c)
        /\ ReturnText(t, CleanResponse(Strip(Content(c))), Append(calls[t], "llm:return"))
    /\ UNCHANGED <<clear_pending, user_message, messages, completion, response_text,
                   tool_reply, tool_result, tool_response_messages>>

\* the second LLM call fails
SecondCompletionFails(t) ==
    /\ pc[t] = "llm2"
    /\ UNCHANGED client_vars
    /\ RaiseError(t, Append(calls[t], "llm:raise"))
    /\ UNCHANGED <<clear_pending, user_message, messages, completion, response_text,
                   tool_reply, tool_result, tool_response_messages, followup>>

\* the response has been sent: the task ends and its locals are gone
Respond(t) ==
    /\ pc[t] \in {"done", "failed", "rejected"}
    /\ UNCHANGED client_vars
    /\ pc' = Set(pc, t, "idle")
    /\ user_message' = Set(user_message, t, << >>)
    /\ messages' = Set(messages, t, << >>)
    /\ completion' = Set(completion, t, NoCompletion)
    /\ response_text' = Set(response_text, t, << >>)
    /\ tool_reply' = Set(tool_reply, t, NoReply)
    /\ tool_result' = Set(tool_result, t, NoToolResult)
    /\ tool_response_messages' = Set(tool_response_messages, t, << >>)
    /\ followup' = Set(followup, t, NoCompletion)
    /\ final_response' = Set(final_response, t, << >>)
    /\ calls' = Set(calls, t, << >>)
    /\ http_status' = Set(http_status, t, 0)
    /\ UNCHANGED <<conversation_history, clear_pending>>

\* lifespan(): MCPClient.initialize() fetches the tools, then the app serves
Lifespan(listReplies) ==
    /\ startup = "starting"
    /\ \E r \in listReplies :
        LET out == ListTools(r)
        IN  /\ list_reply' = r
            /\ IF out.raises = "none"
               THEN tools' = out.value /\ startup' = "ready"
               ELSE startup' = "crashed" /\ UNCHANGED tools
    /\ UNCHANGED <<conversation_history, clear_pending, pc, turn_vars>>

\* a clear that also fails the turns suspended in a remote call
ClearHistoryCancelling ==
    /\ startup = "ready"
    /\ conversation_history' = << >>
    /\ clear_pending' = TRUE
    /\ pc' = [t \in Slots |-> IF pc[t] \in {"llm1", "tool", "llm2"} THEN "failed" ELSE pc[t]]
    /\ http_status' = [t \in Slots |-> IF pc[t] \in {"llm1", "tool", "llm2"} THEN 500
                                        ELSE http_status[t]]
    /\ UNCHANGED <<user_message, messages, completion, response_text, tool_reply,
                   tool_result, tool_response_messages, followup, final_response, calls,
                   client_vars>>

\* POST /clear: LLMHandler.clear_history
ClearHistory ==
    /\ startup = "ready"
    /\ conversation_history' = << >>
    /\ clear_pending' = TRUE
    /\ UNCHANGED <<pc, turn_vars, client_vars>>

(***************************************************************************)
(* Specifications                                                          *)
(***************************************************************************)
MaxHistory == 2
MaxLongHistory == 11

\* the requests of the slots ts, with the given inputs
Requests(ts, msgs, first, replies, second, maxHistory) ==
    \/ \E t \in ts : Chat(t, msgs[t], maxHistory)
    \/ \E t \in ts : FirstCompletion(t, first)
    \/ \E t \in ts : FirstCompletionFails(t)
    \/ \E t \in ts : ToolAnswers(t, replies)
    \/ \E t \in ts : SecondCompletion(t, second)
    \/ \E t \in ts : SecondCompletionFails(t)
    \/ \E t \in ts : Respond(t)
    \/ ClearHistory

\* two concurrent requests on the shared history
Next ==
    \/ Lifespan({ToolsListed})
    \/ Requests(Slots, UserMessages, {Hello, BareToolCall},
             {TextReply, ErrorReply, NotJsonReply, TransportFailure}, {Laptops}, MaxHistory)
Spec == Init /\ [][Next]_vars

\* conversations of one turn, every first completion
NextFirst ==
    \/ Lifespan({ToolsListed})
    \/ Requests({1}, UserMessages, AllCompletions,
             {TextReply, ErrorReply, NotJsonReply, TransportFailure}, {Laptops}, 1)
SpecFirst == Init /\ [][NextFirst]_vars

\* conversations of one turn, every second completion
NextSecond ==
    \/ Lifespan({ToolsListed})
    \/ Requests({1}, UserMessages, {BareToolCall}, {TextReply}, AllCompletions, 1)
SpecSecond == Init /\ [][NextSecond]_vars

\* one request at a time, a long conversation
NextLong ==
    \/ Lifespan({ToolsListed})
    \/ Requests({1}, UserMessages, {Hello, BareToolCall}, {TextReply}, {Laptops}, MaxLongHistory)
SpecLong == Init /\ [][NextLong]_vars

\* concurrent conversations whose first completions all ask for a tool
NextPrompt ==
    \/ Lifespan({ToolsListed})
    \/ Requests(Slots, UserMessages, {PaddedToolCall, PythonToolCall, ProseToolCall},
                {TextReply}, {Laptops}, MaxHistory)
SpecPrompt == Init /\ [][NextPrompt]_vars

\* conversations of one turn, every reply of the tool endpoint
NextTool ==
    \/ Lifespan(AllListReplies)
    \/ Requests({1}, UserMessages, {BareToolCall}, AllReplies, {Laptops}, 1)
SpecTool == Init /\ [][NextTool]_vars

(***************************************************************************)
(* Properties                                                              *)
(***************************************************************************)
Count(log, e) == Cardinality({i \in 1..Len(log) : log[i] = e})
IsStart(e) == e \in {"llm:start", "tool:start"}
IsReturn(e) == e \in {"llm:return", "tool:return"}
Contains(s, sub) == \E i \in 0..(Len(s) - Len(sub)) : SubSeq(s, i + 1, i + Len(sub)) = sub
Last(s) == s[Len(s)]
FirstArrived(log) == Len(log) >= 2 /\ log[2] = "llm:return"
SecondArrived(log) == Count(log, "llm:return") = 2

\* C1: within a turn the remote calls are the first LLM call, then the tool
\* call, then the second LLM call, each started only after the one before has
\* returned; at most one tool call and two LLM calls; a tool call only when
\* the first response holds a Tool Call Intent.
C1_CallsAreSequential ==
    \A t \in Slots :
        LET log == calls[t]
            starts == SelectSeq(log, IsStart)
        IN  /\ Count(log, "llm:start") <= 2
            /\ Count(log, "tool:start") <= 1
            /\ \A i \in 1..Len(log) : IsStart(log[i]) /\ i > 1 => IsReturn(log[i - 1])
            /\ \A i \in 1..Len(starts) :
                   starts[i] = (IF i = 2 THEN "tool:start" ELSE "llm:start")
            /\ Count(log, "tool:start") = 1 => ParseToolCall(response_text[t]).found

C1_Witness ==
    \E t \in Slots :
        /\ pc[t] = "done"
        /\ calls[t] = <<"llm:start", "llm:return", "tool:start", "tool:return",
                        "llm:start", "llm:return">>

\* C2: a turn that invoked the tool and returns a text has made the second
\* LLM call with the tool's observation, and the text is the sanitized second
\* response, whatever the tool endpoint answered.
C2_ToolTurnReturnsSecondResponse ==
    \A t \in Slots :
        pc[t] = "done" /\ Count(calls[t], "tool:start") = 1 =>
            /\ Count(calls[t], "llm:start") = 2
            /\ tool_response_messages[t] # << >>
            /\ Contains(Last(tool_response_messages[t]).content, tool_result[t].result)
            /\ SecondArrived(calls[t])
            /\ final_response[t] = CleanResponse(Strip(Content(followup[t])))

\* C3: when the first response holds no Tool Call Intent, the turn makes no
\* tool call and no second LLM call, and the text returned and appended as
\* the assistant message is the first response text, unchanged.
C3_NoIntentReturnsFirstResponse ==
    [][\A t \in Slots :
          (pc[t] = "llm1" /\ FirstArrived(calls'[t])
             /\ ~ParseToolCall(Strip(Content(completion'[t]))).found) =>
              /\ pc'[t] = "done"
              /\ calls'[t] = <<"llm:start", "llm:return">>
              /\ final_response'[t] = Strip(Content(completion'[t]))
              /\ conversation_history' =
                     Append(conversation_history,
                            Msg("assistant", Strip(Content(completion'[t]))))]_vars

C3_Witness ==
    \E t \in Slots :
        /\ pc[t] = "done"
        /\ completion[t].pre # << >>
        /\ completion[t].obj = <<LB>> \o Str("tool") \o <<COLON, SP>> \o Str("search") \o <<RB>>
        /\ final_response[t] = response_text[t]
        /\ Last(conversation_history) = Msg("assistant", response_text[t])

\* C4: the text a completed turn returns never holds a structured payload
\* that the detection of step 4 would recognise as a Tool Call Intent.
C4_ReturnedTextHasNoToolCall ==
    \A t \in Slots : pc[t] = "done" => ~ParseToolCall(final_response[t]).found

\* a well-formed object {"tool": X, "arguments": A}
WellFormedToolCall(obj) ==
    /\ obj # << >>
    /\ Head(obj) = LB
    /\ LET data == JsonLoads(obj)
       IN  data.ok /\ HasKey(data, "tool") /\ HasKey(data, "arguments")

\* C5: a response text that contains a well-formed object {"tool": X,
\* "arguments": A}, with any prose before and after it, is detected and the
\* tool is called with exactly X and A.
C5_EmbeddedToolCallIsExtracted ==
    \A t \in Slots :
        FirstArrived(calls[t]) /\ WellFormedToolCall(completion[t].obj) =>
            /\ Count(calls[t], "tool:start") = 1
            /\ tool_result[t].tool_name = GetKey(JsonLoads(completion[t].obj), "tool")
            /\ tool_result[t].arguments = GetKey(JsonLoads(completion[t].obj), "arguments")

\* True, False and None outside strings spelled true, false and null
RECURSIVE MapPythonLiterals(_, _)
MapPythonLiterals(s, inString) ==
    IF s = << >> THEN << >>
    ELSE IF Head(s) = Q THEN <<Q>> \o MapPythonLiterals(Tail(s), ~inString)
    ELSE IF ~inString /\ Head(s) \in PyLiterals
         THEN <<CASE Head(s) = "True" -> "true" [] Head(s) = "False" -> "false"
                  [] OTHER -> "null">> \o MapPythonLiterals(Tail(s), inString)
    ELSE <<Head(s)>> \o MapPythonLiterals(Tail(s), inString)

\* the candidate of a text: from its first { to its last }
Candidate(text) ==
    IF Find(text, LB) >= 0 /\ RFind(text, RB) + 1 > Find(text, LB)
    THEN Slice(text, Find(text, LB), RFind(text, RB) + 1)
    ELSE << >>

\* C6: a candidate that is strict JSON but for True, False or None used as
\* values, and that holds the tool and arguments fields, yields a Tool Call
\* Intent wherever the literal stands.
C6_PythonLiteralsAreNormalized ==
    \A t \in Slots :
        FirstArrived(calls[t]) =>
            LET strict == MapPythonLiterals(Candidate(response_text[t]), FALSE)
            IN  WellFormedToolCall(strict) => Count(calls[t], "tool:start") = 1

\* the stated result of _clean_response for a text
FirstBrace(text) == CHOOSE i \in 1..Len(text) : text[i] = LB /\ \A j \in 1..(i - 1) : text[j] # LB
LastBrace(text) == CHOOSE i \in 1..Len(text) : text[i] = RB /\ \A j \in (i + 1)..Len(text) : text[j] # RB
HasPayload(text) ==
    /\ \E i \in 1..Len(text) : text[i] = LB
    /\ \E i \in 1..Len(text) : text[i] = RB
    /\ FirstBrace(text) < LastBrace(text)
    /\ WellFormedToolCall(SubSeq(text, FirstBrace(text), LastBrace(text)))

ProseAround(text) ==
    LET before == Strip(SubSeq(text, 1, FirstBrace(text) - 1))
        after == Strip(SubSeq(text, LastBrace(text) + 1, Len(text)))
    IN  IF before = << >> THEN after
        ELSE IF after = << >> THEN before
        ELSE before \o <<SP>> \o after

C8_PromptIsSystemPlusLastTen ==
    [][\A t \in Slots :
          pc[t] = "idle" /\ pc'[t] = "llm1" =>
              LET h == conversation_history'
                  n == IF Len(h) < 10 THEN Len(h) ELSE 10
              IN  /\ Len(messages'[t]) = 1 + n
                  /\ messages'[t][1].role = "system"
                  /\ \A k \in 1..n : messages'[t][1 + k] = h[Len(h) - n + k]]_vars

C8_Witness ==
    \E t \in Slots :
        /\ pc[t] = "llm1"
        /\ Len(conversation_history) = 11
        /\ Len(messages[t]) = 11
        /\ messages[t][2] = conversation_history[2]

\* C9: after clear_history() the next turn that starts builds a first prompt
\* whose non-system part is exactly the new turn's user message.
C9_PromptAfterClearIsOneMessage ==
    [][\A t \in Slots :
          clear_pending /\ pc[t] = "idle" /\ pc'[t] = "llm1" =>
              messages'[t] = <<Msg("system", full_system), Msg("user", user_message'[t])>>]_vars

\* a JSON-RPC error envelope: an error object with a message, no result
IsErrorEnvelope(r) == r.kind = "json" /\ r.result = "absent" /\ r.error = "msg"

\* C10: on a JSON-RPC error object call_tool returns a string that begins
\* with "Error: " and contains the remote message, and the turn makes the
\* second LLM call with that string as the observation and completes normally.
C10_RemoteErrorBecomesObservation ==
    \A t \in Slots :
        IsErrorEnvelope(tool_reply[t]) =>
            /\ StartsWith(tool_result[t].result, <<"Error", COLON, SP>>)
            /\ Contains(tool_result[t].result, RemoteMessage)
            /\ SubSeq(calls[t], 1, 5) =
                   <<"llm:start", "llm:return", "tool:start", "tool:return", "llm:start">>
            /\ Contains(Last(tool_response_messages[t]).content, tool_result[t].result)
            /\ pc[t] = "failed" => Last(calls[t]) = "llm:raise"
            /\ pc[t] = "done" =>
                   /\ http_status[t] = 200
                   /\ final_response[t] = CleanResponse(Strip(Content(followup[t])))

C10_Witness ==
    \E t \in Slots :
        /\ pc[t] = "done"
        /\ IsErrorEnvelope(tool_reply[t])
        /\ Len(calls[t]) = 6

\* C11: a timeout or transport error of the first LLM call, the tool call or
\* the second LLM call is not swallowed: process_message raises, /chat
\* answers 500, no text is returned and no assistant message is appended.
C11_TransportErrorsPropagate ==
    [][\A t \in Slots :
          (/\ Len(calls'[t]) = Len(calls[t]) + 1
           /\ Last(calls'[t]) \in {"llm:raise", "tool:raise"}
           /\ Last(calls'[t]) = "tool:raise" => tool_reply'[t].kind = "transport") =>
              /\ pc'[t] = "failed"
              /\ http_status'[t] = 500
              /\ final_response'[t] = << >>
              /\ conversation_history' = conversation_history]_vars

C11_Witness ==
    \E t \in Slots :
        /\ pc[t] = "failed"
        /\ tool_reply[t] = TransportFailure
        /\ Last(calls[t]) = "tool:raise"
        /\ http_status[t] = 500


\* a JSON envelope of the malformed shapes: any of result and error missing,
\* result null or without content, empty content, first item without text,
\* error without a message
IsMalformedEnvelope(r) ==
    /\ r.kind = "json"
    /\ r.content \in {"absent", "empty", "list"}
    /\ r.error \in {"absent", "nomsg", "msg"}
    /\ \/ r.result \in {"absent", "null"}
       \/ r.content \in {"absent", "empty"}
       \/ r.item = "notext"
       \/ r.error = "nomsg"

\* C12: for every malformed (non-transport) tools/call envelope call_tool
\* returns a string and never raises, so the turn is not a request failure.
C12_MalformedEnvelopeNeverRaises ==
    \A t \in Slots :
        IsMalformedEnvelope(tool_reply[t]) => Count(calls[t], "tool:raise") = 0

\* a tools/list reply that is JSON and carries result.tools
CarriesTools(r) == r.kind = "json" /\ r.result = "object" /\ r.tools = "present"

\* C13: initialize() sets the tools to result.tools when the reply carries
\* it, and to the empty set, without raising, for every JSON reply without a
\* result.tools key (no result, result without tools, result null or not an
\* object, an error envelope).
C13_InitializeNeverRaisesOnMalformed ==
    list_reply.kind = "json" =>
        /\ startup = "ready"
        /\ tools = IF CarriesTools(list_reply) THEN RemoteTools ELSE << >>

\* the envelopes the precedence rule speaks about: JSON, content missing,
\* empty or a list whose first item has a text, error missing or with a message
HasPrecedenceCase(r) ==
    /\ r.kind = "json"
    /\ r.content \in {"absent", "empty", "list"}
    /\ r.item = "text"
    /\ r.error \in {"absent", "msg"}

\* the return value the precedence rule gives for an envelope
ByPrecedence(r) ==
    IF r.result = "object" /\ r.content = "list" THEN ToolText
    ELSE IF r.error = "msg" THEN ErrorPrefix \o RemoteMessage
    ELSE StrOfEnvelope(r)

\* C14: call_tool returns the first content item's text when the result has a
\* non-empty content list, otherwise "Error: " and the message when the
\* response has an error, otherwise the string form of the raw response.
C14_CallToolPrecedence ==
    \A t \in Slots :
        HasPrecedenceCase(tool_reply[t]) =>
            /\ Count(calls[t], "tool:return") = 1
            /\ tool_result[t].result = ByPrecedence(tool_reply[t])

InFlight == {"llm1", "tool", "llm2"}

\* C15: turns in flight on the shared history are not isolated: a turn that
\* starts while another turn's user message is the unanswered tail of the
\* history sends that message in its own prompt, just before its own; the
\* history can end as user A, user B, assistant B, assistant A.
C15_NoIsolationBetweenTurns ==
    [][\A t, u \in Slots :
          (/\ t # u
           /\ pc[t] = "idle" /\ pc'[t] = "llm1"
           /\ pc[u] \in InFlight
           /\ conversation_history # << >>
           /\ Last(conversation_history) = Msg("user", user_message[u])) =>
              /\ Len(messages'[t]) >= 3
              /\ messages'[t][Len(messages'[t]) - 1] = Msg("user", user_message[u])
              /\ Last(messages'[t]) = Msg("user", user_message'[t])]_vars

C15_Witness ==
    /\ pc[1] = "done" /\ pc[2] = "done"
    /\ final_response[1] # final_response[2]
    /\ messages[2] = <<Msg("system", full_system), Msg("user", user_message[1]),
                       Msg("user", user_message[2])>>
    /\ conversation_history =
           <<Msg("user", user_message[1]), Msg("user", user_message[2]),
             Msg("assistant", final_response[2]), Msg("assistant", final_response[1])>>

\* h is an initial segment of g
IsPrefix(h, g) == Len(h) <= Len(g) /\ SubSeq(g, 1, Len(h)) = h

\* C16: outside clear_history() the stored history is append-only: every
\* step of a request keeps each earlier entry at its position with its
\* content and never shortens the history, also beyond the 10-message window.
C16_HistoryIsAppendOnly ==
    [][pc' # pc => IsPrefix(conversation_history, conversation_history')]_vars

C16_Witness ==
    /\ Len(conversation_history) > HistoryWindow
    /\ pc[1] = "done"
    /\ Last(conversation_history) = Msg("assistant", final_response[1])

\* C17: a /chat request whose message is empty or only whitespace is answered
\* 400 before process_message is called: no LLM or tool call is made and the
\* conversation history and the prompt are untouched.
C17_BlankMessageIsRejected ==
    [][\A t \in Slots :
          (pc[t] = "idle" /\ pc'[t] # "idle" /\ Strip(user_message'[t]) = << >>) =>
              /\ pc'[t] = "rejected"
              /\ http_status'[t] = 400
              /\ calls'[t] = << >>
              /\ messages'[t] = messages[t]
              /\ conversation_history' = conversation_history]_vars

C17_Witness ==
    /\ pc[2] = "rejected"
    /\ user_message[2] = <<SP, NL>>
    /\ http_status[2] = 400
    /\ calls[2] = << >>
    /\ pc[1] = "llm1"
    /\ conversation_history = <<Msg("user", user_message[1])>>

\* C18: the second LLM call is sent the messages of the turn's first call,
\* then an assistant message with the first response as received (stripped of
\* surrounding whitespace only, neither sanitized nor normalized), then one
\* synthesized user message naming the tool, its arguments and the
\* observation; the list is a snapshot, so appends of other turns and clears
\* while the turn is suspended change neither it nor the first call's list.
C18_SecondPromptIsSnapshotPlusTwo ==
    [][\A t \in Slots :
          /\ pc[t] \in InFlight => messages'[t] = messages[t]
          /\ pc[t] = "llm2" => tool_response_messages'[t] = tool_response_messages[t]
          /\ (pc[t] = "tool" /\ pc'[t] = "llm2") =>
                LET sent == tool_response_messages'[t]
                    n == Len(messages[t])
                IN  /\ Len(sent) = n + 2
                    /\ SubSeq(sent, 1, n) = messages[t]
                    /\ sent[n + 1] = Msg("assistant", Strip(Content(completion[t])))
                    /\ sent[n + 2].role = "user"
                    /\ Contains(sent[n + 2].content, PyStr(tool_result'[t].tool_name))
                    /\ Contains(sent[n + 2].content, JsonDumps(tool_result'[t].arguments))
                    /\ Contains(sent[n + 2].content, ToolText)]_vars

C18_Witness ==
    /\ pc[1] = "llm2"
    /\ completion[1] = PythonToolCall
    /\ tool_response_messages[1][3].content # FixPythonLiterals(response_text[1])
    /\ Len(tool_response_messages[1]) = 4
    /\ pc[2] = "llm1"
    /\ conversation_history = <<Msg("user", user_message[1]), Msg("user", user_message[2])>>

\* C19: a turn that returns a text appends exactly two messages: at its start
\* a user message with the inbound text, at its end an assistant message
\* with exactly the returned text, and nothing in between; when the turn
\* called a tool, what it appends is neither the first response that asked
\* for the tool nor the observation.
C19_TurnAppendsUserThenReturnedText ==
    [][\A t \in Slots :
          /\ (pc[t] = "idle" /\ pc'[t] = "llm1") =>
                conversation_history' =
                    Append(conversation_history, Msg("user", user_message'[t]))
          /\ (pc[t] \in InFlight /\ pc'[t] \in InFlight /\ pc'[t] # pc[t]) =>
                conversation_history' = conversation_history
          /\ (pc[t] \in InFlight /\ pc'[t] = "done") =>
                /\ conversation_history' =
                       Append(conversation_history, Msg("assistant", final_response'[t]))
                /\ Count(calls'[t], "tool:start") = 1 =>
                       /\ final_response'[t] # response_text'[t]
                       /\ final_response'[t] # tool_result'[t].result]_vars

\* C20: the user message is appended and the prompt window taken in one
\* uninterrupted step, so whatever other turns and clears do, the last
\* message of a turn's first-LLM prompt is that turn's own user message.
C20_PromptEndsWithOwnMessage ==
    \A t \in Slots :
        pc[t] \in InFlight \cup {"done", "failed"} =>
            Last(messages[t]) = Msg("user", user_message[t])

C20_Witness ==
    /\ pc[1] \in InFlight
    /\ pc[2] = "llm1"
    /\ messages[2] = <<Msg("system", full_system), Msg("user", user_message[1]),
                       Msg("user", user_message[2])>>
    /\ user_message[1] # user_message[2]

\* C21: a clear_history() that runs while a turn is suspended in a remote
\* call neither cancels nor fails the turn; when the turn resumes and returns
\* its text, the assistant message is appended to the post-clear history,
\* which then holds an assistant message with no user message before it.
C21_ClearDoesNotCancelTurnInFlight ==
    [][/\ (conversation_history # << >> /\ conversation_history' = << >>) =>
              /\ pc' = pc
              /\ turn_vars' = turn_vars
       /\ \A t \in Slots :
              (pc[t] \in InFlight /\ pc'[t] = "done" /\ conversation_history = << >>) =>
                  /\ conversation_history' = <<Msg("assistant", final_response'[t])>>
                  /\ http_status'[t] = 200]_vars

C21_Witness ==
    /\ clear_pending
    /\ pc = <<"done", "idle">>
    /\ http_status[1] = 200
    /\ Count(calls[1], "tool:start") = 1
    /\ conversation_history = <<Msg("assistant", final_response[1])>>

\* C22: a turn that fails in a remote call is not rolled back: the failing
\* step leaves the history as it is, with the turn's user message and no
\* assistant message, so a turn that starts next has a history and a prompt
\* that end with two consecutive user messages.
C22_FailedTurnIsNotRolledBack ==
    [][\A t \in Slots :
          /\ (pc[t] \in InFlight /\ pc'[t] = "failed") =>
                /\ conversation_history' = conversation_history
                /\ http_status'[t] = 500
                /\ final_response'[t] = << >>
          /\ \A u \in Slots \ {t} :
                (/\ pc[u] = "failed"
                 /\ pc[t] = "idle" /\ pc'[t] = "llm1"
                 /\ conversation_history # << >>
                 /\ Last(conversation_history) = Msg("user", user_message[u])) =>
                    LET h == conversation_history'
                        p == messages'[t]
                    IN  /\ SubSeq(h, Len(h) - 1, Len(h)) =
                               <<Msg("user", user_message[u]), Msg("user", user_message'[t])>>
                        /\ SubSeq(p, Len(p) - 1, Len(p)) = SubSeq(h, Len(h) - 1, Len(h))]_vars

C22_Witness ==
    /\ pc = <<"failed", "llm1">>
    /\ Last(calls[1]) = "llm:raise"
    /\ Count(calls[1], "tool:return") = 1
    /\ conversation_history = <<Msg("user", user_message[1]), Msg("user", user_message[2])>>
    /\ messages[2] = <<Msg("system", full_system)>> \o conversation_history

\* the detection test of _clean_response: the text from the first '{' to the
\* last '}' parses strictly to an object with the tool and arguments fields
Removable(text) ==
    LET c == Candidate(text)
    IN  /\ c # << >>
        /\ JsonLoads(c).ok
        /\ HasKey(JsonLoads(c), "tool")
        /\ HasKey(JsonLoads(c), "arguments")

\* C23: _clean_response is idempotent: applied to its own output it returns
\* that output, and the output holds nothing its detection test would remove.
C23_CleanResponseIsIdempotent ==
    \A t \in Slots :
        pc[t] = "done" /\ SecondArrived(calls[t]) =>
            LET once == CleanResponse(Strip(Content(followup[t])))
            IN  /\ final_response[t] = once
                /\ CleanResponse(once) = once
                /\ ~Removable(once)

C23_Witness ==
    /\ pc[1] = "done"
    /\ followup[1].pre = <<"w", RB, SP>>
    /\ followup[1].post = <<SP, LB, "w">>
    /\ Removable(Strip(Content(followup[1])))
    /\ final_response[1] = <<"w", RB, SP, LB, "w">>

====
